---- MODULE Spec2Model ----
(***************************************************************************)
(* Polling / write coordination engine of the BRINK HRU Modbus integration *)
(* (custom_components/brink_modbus).  One asyncio event loop runs the poll *)
(* cycle of BrinkCoordinator and the write entry points of the entities;   *)
(* a task only gives up control at an await, so every action below is the  *)
(* code between two awaits of one task.                                    *)
(***************************************************************************)
EXTENDS Integers, Sequences, FiniteSets, TLC

(***************************************************************************)
(* Register catalog (const.py).  The model keeps a slice of the two tables *)
(* in catalog order: one unscaled and one scaled input register, the       *)
(* holding registers the guarded writes use and one holding register that  *)
(* is not in the polled subset.  The scale 0.1 is the rational 1/10.       *)
(***************************************************************************)
INPUT_REGISTERS ==
    << [key |-> "device_type",     address |-> 4004, hasScale |-> FALSE, scaleNum |-> 1, scaleDen |-> 1],
       [key |-> "supply_pressure", address |-> 4023, hasScale |-> TRUE,  scaleNum |-> 1, scaleDen |-> 10] >>

HOLDING_REGISTERS ==
    << [key |-> "imbalance_allowed",     address |-> 6033, min |-> 0,  max |-> 1],
       [key |-> "modbus_control",        address |-> 8000, min |-> 0,  max |-> 2],
       [key |-> "power_switch_position", address |-> 8001, min |-> 0,  max |-> 3],
       [key |-> "flow_setpoint",         address |-> 8002, min |-> 50, max |-> 325] >>

\* The key list of the setting_registers filter of _async_update_data.
SettingKeys ==
    { "bypass_mode_setting", "power_switch_position", "modbus_control",
      "flow_level_0_absence", "flow_level_1_low", "flow_level_2_normal",
      "flow_level_3_high", "supply_imbalance_offset", "exhaust_imbalance_offset",
      "geo_min_temperature", "geo_max_temperature", "flow_setpoint" }

IsSetting(cfg) == cfg.key \in SettingKeys

\* setting_registers: the holding registers the poll cycle reads, in catalog order.
setting_registers == SelectSeq(HOLDING_REGISTERS, IsSetting)

SeqRange(s) == { s[i] : i \in 1..Len(s) }
InputKeys   == { c.key : c \in SeqRange(INPUT_REGISTERS) }
HoldingKeys == { c.key : c \in SeqRange(HOLDING_REGISTERS) }
PolledHoldingKeys == { c.key : c \in SeqRange(setting_registers) }
PolledKeys  == InputKeys \cup PolledHoldingKeys

\* The reads of one cycle in the order the two loops issue them.
NumInput  == Len(INPUT_REGISTERS)
NumPolled == Len(INPUT_REGISTERS) + Len(setting_registers)
PollKey(i) == IF i <= NumInput THEN INPUT_REGISTERS[i].key
              ELSE setting_registers[i - NumInput].key

HoldingConfig(k) == CHOOSE c \in SeqRange(HOLDING_REGISTERS) : c.key = k
AddressKey(a)    == (CHOOSE c \in SeqRange(HOLDING_REGISTERS) : c.address = a).key

(***************************************************************************)
(* Values.  A register arrives as one 16-bit wire word (result.registers). *)
(* A snapshot value is the rational num/den: den = 1 for the Python int of *)
(* an unscaled register, den = 10 for the float of a register scaled by    *)
(* 0.1.                                                                    *)
(***************************************************************************)
WireWords == { 153, 65486 }

Val(n, d) == [num |-> n, den |-> d]

EmptyMap == [k \in {} |-> Val(0, 1)]

Put(m, k, v) == [x \in DOMAIN m \cup {k} |-> IF x = k THEN v ELSE m[x]]

\* The exceptions (subclasses of Exception) a client call can raise, as the
\* except clauses of the coordinator tell them apart.  The cancellation of
\* the running asyncio task, a BaseException, is not part of the model.
ExcKinds == { "ConnectionException", "ModbusException", "Exception" }

\* What the device may hold in its holding registers before any write: any
\* control mode, the other registers at 0.
InitialDevices ==
    { [k \in HoldingKeys |-> IF k = "modbus_control" THEN m ELSE 0] : m \in {0, 1, 2} }

VARIABLES
    connected,         \* client.connected
    hasData,           \* coordinator.data is not None
    data,              \* coordinator.data, the published snapshot
    dev,               \* the device's holding registers (wire words)
    pollPc,            \* the await the poll cycle is suspended on: idle, connect, read
    pollIdx,           \* which read of the cycle is awaited
    building,          \* the local dict `data` of _async_update_data
    reads,             \* outcome of each read of the cycle so far
    cycle,             \* how the current / last cycle began and ended
    refreshRequested,  \* async_request_refresh was called and no cycle began since
    task,              \* the write entry point invocations
    wire,              \* every client.write_register call, in issue order
    life,              \* the config entry: setup / unload progress, hass.data
    diag,              \* the diagnostic pass: async_read_all_registers
    closeCall,         \* the disconnect() calls made from outside an unload
    hub,               \* hass.data[DOMAIN], the services and the entries' handlers
    flow,              \* the config flow's validate_input
    trip               \* a value on its way to a register and back to the snapshot

vars == << connected, hasData, data, dev, pollPc, pollIdx, building, reads,
           cycle, refreshRequested, task, wire, life, diag, closeCall,
           hub, flow, trip >>

\* The variables of the coordinator and of the single config entry.
engineVars == << connected, hasData, data, dev, pollPc, pollIdx, building, reads,
                 cycle, refreshRequested, task, wire, life, diag, closeCall >>

(***************************************************************************)
(* Poll cycle: BrinkCoordinator._async_update_data and the assignment of   *)
(* its result to coordinator.data by the DataUpdateCoordinator base class. *)
(***************************************************************************)
NoCycle == [kind |-> "none", startConnected |-> FALSE, reconnect |-> "none",
            exc |-> "none", cause |-> "none", issued |-> 0]

\* Mutant of NeedsConnect: connect() is called at the start of every operation.
NeedsConnectAlways(c) == TRUE

\* `if not self.client.connected:` the guard in front of every connect().
NeedsConnect(c) == ~c

\* Mutant of NextRead: a register whose read failed is read again.
NextReadRetry(i, outcome) == IF outcome.kind = "ok" THEN i + 1 ELSE i

\* Mutant of NextRead: a failed read ends the loop.
NextReadAbort(i, outcome) == IF outcome.kind = "ok" THEN i + 1 ELSE NumPolled + 1

\* The for loops: the next iteration takes the next descriptor, whatever the
\* read of this one did.
NextRead(i, outcome) == i + 1

\* value = result.registers[0]; if "scale" in config: value = value * config["scale"]
ScaleValue(cfg, raw) ==
    IF cfg.hasScale THEN Val(raw * cfg.scaleNum, cfg.scaleDen) ELSE Val(raw, 1)

\* The value an input / polled holding read stores under its key.
StoredValue(i, raw) ==
    IF i <= NumInput THEN ScaleValue(INPUT_REGISTERS[i], raw) ELSE Val(raw, 1)

\* Mutant of AfterRead: a good response is stored under one fixed name instead
\* of the descriptor's key.
AfterReadOneName(b, i, outcome) ==
    IF outcome.kind = "ok" THEN Put(b, "value", StoredValue(i, outcome.raw)) ELSE b

\* Mutant of AfterRead: an error response stores a zero under the key.
AfterReadProxy(b, i, outcome) ==
    IF outcome.kind = "ok" THEN Put(b, PollKey(i), StoredValue(i, outcome.raw))
    ELSE IF outcome.kind = "error" THEN Put(b, PollKey(i), StoredValue(i, 0))
    ELSE b

\* The body of both read loops: a good response is stored, an error response
\* (continue) and a raised exception (inner except) leave the key out.
AfterRead(b, i, outcome) ==
    IF outcome.kind = "ok" THEN Put(b, PollKey(i), StoredValue(i, outcome.raw)) ELSE b

\* Mutant of DataAfterRead: every read is written through to coordinator.data.
DataAfterReadInPlace(d, b, last) == b

\* Mutant of DataAfterRead: the returned dict is merged into the old snapshot.
DataAfterReadMerged(d, b, last) ==
    IF last THEN [k \in DOMAIN d \cup DOMAIN b |-> IF k \in DOMAIN b THEN b[k] ELSE d[k]]
    ELSE d

\* coordinator.data after a read has been handled: the cycle only returns its
\* dict after the last read, and the base class then assigns it.
DataAfterRead(d, b, last) == IF last THEN b ELSE d

\* Mutant of OuterHandler: the catch-all clause is missing.
OuterHandlerNarrow(cause) ==
    IF cause = "ConnectionException" THEN [exc |-> "UpdateFailed", msg |-> "Connection error"]
    ELSE IF cause = "ModbusException" THEN [exc |-> "UpdateFailed", msg |-> "Modbus error"]
    ELSE [exc |-> cause, msg |-> "none"]

\* The three outer except clauses: each raises UpdateFailed from the error.
OuterHandler(cause) ==
    IF cause = "ConnectionException" THEN [exc |-> "UpdateFailed", msg |-> "Connection error"]
    ELSE IF cause = "ModbusException" THEN [exc |-> "UpdateFailed", msg |-> "Modbus error"]
    ELSE [exc |-> "UpdateFailed", msg |-> "Unexpected error"]

\* Mutant of InnerHandler: an exception raised by a read is not caught there.
InnerHandlerReraise(outcome) ==
    IF outcome.kind = "exception" THEN "raise" ELSE "continue"

\* The inner try/except of both loops: `except Exception` logs a warning and
\* the loop goes on, whatever was raised.
InnerHandler(outcome) == "continue"

\* What a read of register i can answer.  A client that is not connected has
\* no link to answer on: the call raises.  env = [words, kinds, failable] is
\* what the environment of a specification lets happen: the wire words an
\* input register can hold, the ways a read can fail, the keys that can fail.
ReadOutcomes(i, env) ==
    IF ~connected THEN { [kind |-> "exception", raw |-> 0] }
    ELSE { [kind |-> k, raw |-> 0] :
             k \in IF PollKey(i) \in env.failable THEN env.kinds ELSE {} }
         \cup (IF i <= NumInput THEN { [kind |-> "ok", raw |-> w] : w \in env.words }
               ELSE { [kind |-> "ok", raw |-> dev[PollKey(i)]] })

\* A cycle starts (timer or requested refresh): `if not self.client.connected`
\* awaits connect(), otherwise the first read is issued.
PollBegin ==
    /\ pollPc = "idle"
    /\ building' = EmptyMap
    /\ reads' = [k \in {} |-> [kind |-> "ok", raw |-> 0]]
    /\ cycle' = [NoCycle EXCEPT !.kind = "running", !.startConnected = connected,
                                 !.issued = IF NeedsConnect(connected) THEN 0 ELSE 1]
    /\ refreshRequested' = FALSE
    /\ IF NeedsConnect(connected)
          THEN pollPc' = "connect" /\ pollIdx' = 0
          ELSE pollPc' = "read" /\ pollIdx' = 1
    /\ task' = [t \in DOMAIN task |-> [task[t] EXCEPT !.inCycle = FALSE]]
    /\ UNCHANGED << hub, flow, trip, diag, closeCall, life, connected, hasData, data, dev, wire >>

\* connect() comes back having connected, or not, without raising: the code
\* does not look at the result and goes on to the reads.
PollConnectReturn ==
    /\ pollPc = "connect"
    /\ \E ok \in BOOLEAN :
          /\ connected' = (connected \/ ok)
          /\ cycle' = [cycle EXCEPT !.reconnect = IF ok THEN "connected" ELSE "notconnected",
                                    !.issued = 1]
    /\ pollPc' = "read"
    /\ pollIdx' = 1
    /\ UNCHANGED << hub, flow, trip, diag, closeCall, life, hasData, data, dev, building, reads, refreshRequested, task, wire >>

\* connect() raises: one of the outer except clauses ends the cycle, and the
\* base class keeps coordinator.data as it was.
PollConnectRaise ==
    /\ pollPc = "connect"
    /\ \E e \in ExcKinds :
          cycle' = [cycle EXCEPT !.kind = "raised", !.reconnect = "raised",
                                 !.exc = OuterHandler(e).exc, !.cause = e]
    /\ pollPc' = "idle"
    /\ UNCHANGED << hub, flow, trip, diag, closeCall, life, connected, hasData, data, dev, pollIdx, building, reads,
                    refreshRequested, task, wire >>

\* The model counts register operations of a cycle up to this number.
MaxWaited == 2

\* Bookkeeping, not program state: a write call that was made while this
\* cycle was running and has not reached write_register yet has seen one
\* more register operation of the cycle complete.
ReadCompleted(r) ==
    IF r.pc = "connect" /\ r.inCycle
       THEN [r EXCEPT !.waited = IF @ < MaxWaited THEN @ + 1 ELSE @]
       ELSE r

\* The awaited read answers; the loop body handles it and, with no await in
\* between, issues the next read or returns the dict, which is published.
PollReadReturn(env) ==
    /\ pollPc = "read"
    /\ \E o \in ReadOutcomes(pollIdx, env) :
          LET nxt  == NextRead(pollIdx, o)
              last == nxt > NumPolled
              b    == AfterRead(building, pollIdx, o)
          IN /\ reads' = Put(reads, PollKey(pollIdx), o)
             /\ IF o.kind = "exception" /\ InnerHandler(o) # "continue"
                   THEN /\ building' = building
                        /\ data' = data
                        /\ hasData' = hasData
                        /\ pollPc' = "idle"
                        /\ pollIdx' = 0
                        /\ cycle' = [cycle EXCEPT !.kind = "raised", !.cause = "Exception",
                                                  !.exc = OuterHandler("Exception").exc]
                   ELSE /\ building' = b
                        /\ data' = DataAfterRead(data, b, last)
                        /\ hasData' = (hasData \/ last)
                        /\ pollPc' = IF last THEN "idle" ELSE "read"
                        /\ pollIdx' = IF last THEN 0 ELSE nxt
                        /\ cycle' = IF last THEN [cycle EXCEPT !.kind = "returned"]
                                     ELSE [cycle EXCEPT !.issued = @ + 1]
    /\ task' = [t \in DOMAIN task |-> ReadCompleted(task[t])]
    /\ UNCHANGED << hub, flow, trip, diag, closeCall, life, connected, dev, refreshRequested, wire >>

\* The serial link drops: the client reports not connected from then on.
ConnectionLost ==
    /\ connected
    /\ connected' = FALSE
    /\ UNCHANGED << hub, flow, trip, diag, closeCall, life, hasData, data, dev, pollPc, pollIdx, building, reads, cycle,
                    refreshRequested, task, wire >>

(***************************************************************************)
(* Consumers.  BrinkSensor.native_value hands the snapshot's entry for its *)
(* key to the host as it is stored; None (den = 0 here) when there is no   *)
(* snapshot or no such key.                                                *)
(***************************************************************************)
NoneVal == [num |-> 0, den |-> 0]

\* Mutant of native_value: the sensor applies the catalog's scale itself.
native_value_rescaled(k) ==
    IF ~hasData \/ k \notin DOMAIN data THEN NoneVal
    ELSE IF \E c \in SeqRange(INPUT_REGISTERS) : c.key = k /\ c.hasScale
            THEN LET c == CHOOSE c \in SeqRange(INPUT_REGISTERS) : c.key = k
                 IN Val(data[k].num * c.scaleNum, data[k].den * c.scaleDen)
            ELSE data[k]

\* if self.coordinator.data is None: return None
\* return self.coordinator.data.get(self._sensor_key)
native_value(k) ==
    IF ~hasData THEN NoneVal
    ELSE IF k \in DOMAIN data THEN data[k] ELSE NoneVal

(***************************************************************************)
(* Write path: BrinkCoordinator.async_write_register and its callers: the  *)
(* two guarded entry points, BrinkFlowSetpointNumber.async_set_native_value*)
(* (needs modbus_control = 2) and BrinkPowerSwitchSelect.async_select_option*)
(* (needs modbus_control = 1), and, as entry points that write once, the   *)
(* imbalance switch and the set_flow_speed service.                        *)
(***************************************************************************)
\* The model runs at most this many entry point invocations side by side,
\* each in its own task; a task makes one invocation.
MaxTasks == 2

Tasks == 1..MaxTasks

\* POWER_SWITCH_MAP without 4 ("Manual"), the options of the select.
PowerSwitchOptions == { <<"Absence", 0>>, <<"Low", 1>>, <<"Normal", 2>>, <<"High", 3>> }

\* The values the callers hand to the entry points in the model.
FlowValues    == { 200, 400 }
OptionsChosen == { "High" }

\* The loop over POWER_SWITCH_MAP.items() of async_select_option.
OptionValue(option) == (CHOOSE p \in PowerSwitchOptions : p[1] = option)[2]

Entries ==
    { [entry |-> "flow_setpoint", target |-> "flow_setpoint", required |-> 2, value |-> v]
        : v \in FlowValues }
    \cup
    { [entry |-> "power_switch", target |-> "power_switch_position", required |-> 1,
       value |-> OptionValue(o)] : o \in OptionsChosen }

\* Mutant of GuardedEntryNames: every entry point writes the control mode first.
GuardedEntryNamesAll ==
    { "flow_setpoint", "power_switch", "imbalance_switch", "set_flow_speed",
      "modbus_control_select" }

\* The entry points that write the control mode first.
GuardedEntryNames == { "flow_setpoint", "power_switch" }

\* BrinkImbalanceAllowedSwitch.async_turn_on (1) and async_turn_off (0): one
\* plain write of a register the poll cycle does not read.
SwitchEntries ==
    { [entry |-> "imbalance_switch", target |-> "imbalance_allowed", required |-> 0,
       value |-> v] : v \in { 1, 0 } }

\* BrinkModbusControlSelect.async_select_option: the option's value is
\* written to modbus_control with one plain write.
ControlOptions == { 1 }
ControlEntries ==
    { [entry |-> "modbus_control_select", target |-> "modbus_control", required |-> 0,
       value |-> v] : v \in ControlOptions }

\* The set_flow_speed service: SET_FLOW_SPEED_SCHEMA lets 50..325 through,
\* the handler makes one plain write of flow_setpoint.
ServiceSpeeds == { 200 }
ServiceNames  == { "set_flow_speed" }
ServiceEntries ==
    { [entry |-> "set_flow_speed", target |-> "flow_setpoint", required |-> 0,
       value |-> v] : v \in ServiceSpeeds }

IdleTask == [pc |-> "idle", entry |-> "none", target |-> "none", required |-> 0,
             value |-> 0, phase |-> "none", guarded |-> FALSE,
             control_success |-> FALSE, settled |-> FALSE, success |-> FALSE,
             result |-> "none", cause |-> "none", call |-> "none",
             inCycle |-> FALSE, waited |-> 0, requests |-> 0]

\* Mutant of CachedModeIs: the mode is read from the device.
CachedModeIsOnDevice(v) == dev["modbus_control"] = v

\* self.coordinator.data.get("modbus_control") if self.coordinator.data else None
\* compared with the required mode: None and a float never equal it.
CachedModeIs(v) ==
    /\ hasData
    /\ "modbus_control" \in DOMAIN data
    /\ data["modbus_control"] = Val(v, 1)

\* Address and value of the async_write_register call a task is in.
CallAddress(r) ==
    IF r.phase = "mode" THEN HoldingConfig("modbus_control").address
    ELSE HoldingConfig(r.target).address

CallValue(r) == IF r.phase = "mode" THEN r.required ELSE r.value

WireEntry(t, r) == [task |-> t, address |-> CallAddress(r), value |-> CallValue(r)]

\* Mutant of EnterWrite: the call waits for a running poll cycle to end.
EnterWriteBehindCycle(t, r) ==
    IF connected /\ pollPc = "idle"
       THEN /\ task' = [task EXCEPT ![t] = [r EXCEPT !.pc = "write", !.cause = "none",
                                                      !.call = "none"]]
            /\ wire' = Append(wire, WireEntry(t, r))
       ELSE /\ task' = [task EXCEPT ![t] = [r EXCEPT !.pc = "connect", !.cause = "none",
                                                      !.call = "none",
                                                      !.inCycle = (pollPc # "idle")]]
            /\ wire' = wire

\* async_write_register up to its first await: connect() when the client is
\* not connected, else client.write_register(address, value).
EnterWrite(t, r) ==
    IF NeedsConnect(connected)
       THEN /\ task' = [task EXCEPT ![t] = [r EXCEPT !.pc = "connect", !.cause = "none",
                                                      !.call = "none",
                                                      !.inCycle = (pollPc # "idle")]]
            /\ wire' = wire
       ELSE /\ task' = [task EXCEPT ![t] = [r EXCEPT !.pc = "write", !.cause = "none",
                                                      !.call = "none"]]
            /\ wire' = Append(wire, WireEntry(t, r))

\* Mutant of AfterModeWrite: control_success is not looked at.
AfterModeWriteUnchecked(r, res) ==
    [r EXCEPT !.control_success = res, !.pc = "sleep"]

\* What the entry point does when its mode write came back: log and return on
\* failure, else sleep half a second.
AfterModeWrite(r, res) ==
    IF res THEN [r EXCEPT !.control_success = TRUE, !.pc = "sleep"]
    ELSE [r EXCEPT !.pc = "done", !.result = "returned"]

\* What the entry point does when its target write came back: an entity logs
\* an error or an info line and returns None; a service handler raises
\* ServiceValidationError on False.
AfterTargetWrite(r, res) ==
    [r EXCEPT !.success = res, !.pc = "done",
              !.result = IF ~res /\ r.entry \in ServiceNames THEN "raised" ELSE "returned"]

\* async_write_register has returned res to the entry point.
WriteReturned(r, res) ==
    IF r.phase = "mode" THEN AfterModeWrite(r, res) ELSE AfterTargetWrite(r, res)

\* The exits of async_write_register by what ended the call: True after the
\* refresh call returned ("none"), False on an error response, and False
\* again from `except Exception` for whatever connect(), write_register or
\* async_request_refresh raised.
WriteResult(cause) ==
    IF cause = "none" THEN [how |-> "return", value |-> TRUE]
    ELSE IF cause = "error" THEN [how |-> "return", value |-> FALSE]
    ELSE [how |-> "return", value |-> FALSE]

\* async_write_register ends for the given cause and its caller goes on
\* with the value returned; an exception would pass through the entry
\* point, which catches nothing.
CallEnded(r, cause) ==
    LET w  == WriteResult(cause)
        r2 == [r EXCEPT !.cause = cause, !.inCycle = FALSE, !.waited = 0,
                        !.call = IF w.how = "raise" THEN "raised"
                                 ELSE IF w.value THEN "True" ELSE "False"]
    IN IF w.how = "raise" THEN [r2 EXCEPT !.pc = "done", !.result = "raised"]
       ELSE WriteReturned(r2, w.value)

\* Mutant of RequestRefresh: the write path does not ask for a refresh.
RequestRefreshSkipped(requested) == requested

\* await self.async_request_refresh(): a refresh is asked for.
RequestRefresh(requested) == TRUE

\* An entry point is called (the platforms exist once the first refresh has
\* published).  It reads the cached mode and starts the mode write or, when
\* the cache already holds the required mode, the target write.
TaskStart(t, entries) ==
    /\ task[t].pc = "idle"
    /\ hasData
    /\ \E e \in entries :
          LET g == e.entry \in GuardedEntryNames /\ ~CachedModeIs(e.required)
              r == [IdleTask EXCEPT !.entry = e.entry, !.target = e.target,
                                    !.required = e.required, !.value = e.value,
                                    !.guarded = g,
                                    !.phase = IF g THEN "mode" ELSE "target"]
          IN EnterWrite(t, r)
    /\ UNCHANGED << hub, flow, trip, diag, closeCall, life, connected, hasData, data, dev, pollPc, pollIdx, building,
                    reads, cycle, refreshRequested >>

\* connect() of async_write_register comes back without raising; the write
\* is issued whether or not the client is connected now.
TaskConnectReturn(t) ==
    /\ task[t].pc = "connect"
    /\ \E ok \in BOOLEAN : connected' = (connected \/ ok)
    /\ task' = [task EXCEPT ![t] = [@ EXCEPT !.pc = "write", !.inCycle = FALSE,
                                              !.waited = 0]]
    /\ wire' = Append(wire, WireEntry(t, task[t]))
    /\ UNCHANGED << hub, flow, trip, diag, closeCall, life, hasData, data, dev, pollPc, pollIdx, building, reads, cycle,
                    refreshRequested >>

\* connect() raises: `except Exception` returns False, nothing was written.
TaskConnectRaise(t) ==
    /\ task[t].pc = "connect"
    /\ task' = [task EXCEPT ![t] = CallEnded(task[t], "connect")]
    /\ UNCHANGED << hub, flow, trip, diag, closeCall, life, connected, hasData, data, dev, pollPc, pollIdx, building,
                    reads, cycle, refreshRequested, wire >>

\* write_register answers without error: the device holds the value, and
\* async_write_register awaits async_request_refresh().
TaskWriteOk(t) ==
    /\ task[t].pc = "write"
    /\ connected
    /\ dev' = [dev EXCEPT ![AddressKey(CallAddress(task[t]))] = CallValue(task[t])]
    /\ refreshRequested' = RequestRefresh(refreshRequested)
    /\ task' = [task EXCEPT ![t].pc = "refresh",
                            ![t].requests = IF RequestRefresh(FALSE) THEN @ + 1 ELSE @]
    /\ UNCHANGED << hub, flow, trip, diag, closeCall, life, connected, hasData, data, pollPc, pollIdx, building, reads,
                    cycle, wire >>

\* write_register answers with an error response or raises: False.
TaskWriteFail(t) ==
    /\ task[t].pc = "write"
    /\ \E c \in { "error", "exception" } :
          task' = [task EXCEPT ![t] = CallEnded(task[t], c)]
    /\ UNCHANGED << hub, flow, trip, diag, closeCall, life, connected, hasData, data, dev, pollPc, pollIdx, building,
                    reads, cycle, refreshRequested, wire >>

\* async_request_refresh() returns: async_write_register returns True.
TaskRefreshReturn(t) ==
    /\ task[t].pc = "refresh"
    /\ task' = [task EXCEPT ![t] = CallEnded(task[t], "none")]
    /\ UNCHANGED << hub, flow, trip, diag, closeCall, life, connected, hasData, data, dev, pollPc, pollIdx, building,
                    reads, cycle, refreshRequested, wire >>

\* async_request_refresh() raises: `except Exception` returns False.
TaskRefreshRaise(t) ==
    /\ task[t].pc = "refresh"
    /\ task' = [task EXCEPT ![t] = CallEnded(task[t], "refresh")]
    /\ UNCHANGED << hub, flow, trip, diag, closeCall, life, connected, hasData, data, dev, pollPc, pollIdx, building,
                    reads, cycle, refreshRequested, wire >>

\* asyncio.sleep(0.5) is over: the target write starts.
TaskSleepReturn(t) ==
    /\ task[t].pc = "sleep"
    /\ EnterWrite(t, [task[t] EXCEPT !.settled = TRUE, !.phase = "target"])
    /\ UNCHANGED << hub, flow, trip, diag, closeCall, life, connected, hasData, data, dev, pollPc, pollIdx, building,
                    reads, cycle, refreshRequested >>

(***************************************************************************)
(* Config entry life cycle: async_setup_entry, async_unload_entry and      *)
(* async_reload_entry of __init__.py and BrinkCoordinator.disconnect.      *)
(* connected, hasData, data and the cycle variables are those of the       *)
(* coordinator the entry uses now; life.orphans counts the clients of      *)
(* coordinators it used before that still hold the serial port open.       *)
(***************************************************************************)
\* The model stops creating coordinators next to this many orphaned clients.
MaxOrphans == 2

\* async_setup_entry right after `coordinator = BrinkCoordinator(hass, entry)`:
\* nothing stored, no services, the first refresh not begun.
SetupEntered ==
    [state |-> "setting_up", pc |-> "setup", stored |-> FALSE, services |-> FALSE,
     orphans |-> 0, closes |-> 0, reloading |-> FALSE, unload_ok |-> FALSE,
     wasOpen |-> FALSE, polled |-> FALSE]

\* The first refresh of a setup, or the update timer of the coordinator in
\* use, which runs while platform entities listen to it (life.polled: from
\* the forwarding of the platforms to their unloading).
RefreshDue ==
    \/ life.pc = "setup" /\ cycle.kind = "none"
    \/ life.polled

LifePollBegin == RefreshDue /\ PollBegin

\* async_config_entry_first_refresh is over.  A failed refresh raises, the
\* handler raises ConfigEntryNotReady and the coordinator is dropped as it
\* is; otherwise the coordinator is stored and the platforms are forwarded.
SetupAfterRefresh ==
    /\ life.pc = "setup"
    /\ pollPc = "idle"
    /\ cycle.kind \in { "returned", "raised" }
    /\ life' = IF cycle.kind = "raised"
                  THEN [life EXCEPT !.state = "setup_retry", !.pc = "none",
                                    !.reloading = FALSE]
                  ELSE [life EXCEPT !.stored = TRUE, !.pc = "forward", !.polled = TRUE]
    /\ UNCHANGED << hub, flow, trip, diag, closeCall, connected, hasData, data, dev, pollPc, pollIdx, building, reads,
                    cycle, refreshRequested, task, wire >>

\* async_forward_entry_setups returns; `if len(hass.data[DOMAIN]) == 1` the
\* services are registered; return True.
SetupForwardReturn ==
    /\ life.pc = "forward"
    /\ life' = [life EXCEPT !.state = "loaded", !.pc = "none", !.services = TRUE,
                            !.reloading = FALSE]
    /\ UNCHANGED << hub, flow, trip, diag, closeCall, connected, hasData, data, dev, pollPc, pollIdx, building, reads,
                    cycle, refreshRequested, task, wire >>

\* async_setup_entry is entered again: a new BrinkCoordinator with a new
\* client, not connected and without data.  Nothing closes the client of
\* the coordinator used before; if it holds the port it goes on holding it.
NewCoordinator ==
    /\ pollPc = "idle"
    /\ life.orphans < MaxOrphans
    /\ life' = [life EXCEPT !.state = "setting_up", !.pc = "setup", !.polled = FALSE,
                            !.orphans = IF connected THEN @ + 1 ELSE @]
    /\ connected' = FALSE
    /\ hasData' = FALSE
    /\ data' = EmptyMap
    /\ building' = EmptyMap
    /\ reads' = [k \in {} |-> [kind |-> "ok", raw |-> 0]]
    /\ cycle' = NoCycle
    /\ refreshRequested' = FALSE
    /\ UNCHANGED << hub, flow, trip, diag, closeCall, dev, pollPc, pollIdx, task, wire >>

\* The host sets the entry up again: the retry after ConfigEntryNotReady, or
\* a setup after an unload.
SetupBegin ==
    /\ life.pc = "none"
    /\ life.state \in { "setup_retry", "not_loaded" }
    /\ NewCoordinator

\* async_unload_entry up to its await of async_unload_platforms.  closes
\* and wasOpen are bookkeeping: the close() calls of this unload, and
\* whether the client held the port when it began.
UnloadBegin ==
    /\ life.pc = "none"
    /\ life.state = "loaded"
    /\ life' = [life EXCEPT !.state = "unloading", !.pc = "unload_platforms",
                            !.closes = 0, !.wasOpen = connected]
    /\ UNCHANGED << hub, flow, trip, diag, closeCall, connected, hasData, data, dev, pollPc, pollIdx, building, reads,
                    cycle, refreshRequested, task, wire >>

\* async_reload_entry: it awaits async_unload_entry and then, whatever that
\* returned, async_setup_entry.
ReloadBegin ==
    /\ life.pc = "none"
    /\ life.state = "loaded"
    /\ life' = [life EXCEPT !.state = "unloading", !.pc = "unload_platforms",
                            !.closes = 0, !.wasOpen = connected, !.reloading = TRUE]
    /\ UNCHANGED << hub, flow, trip, diag, closeCall, connected, hasData, data, dev, pollPc, pollIdx, building, reads,
                    cycle, refreshRequested, task, wire >>

\* async_unload_entry after async_unload_platforms: `if unload_ok:` the
\* coordinator is disconnected (one client.close()), popped from hass.data
\* and, the mapping being empty now, the services are removed; unload_ok is
\* returned.  With unload_ok False none of this happens.
AfterUnloadPlatforms(l, unload_ok) ==
    [l EXCEPT !.unload_ok = unload_ok,
              !.closes = IF unload_ok THEN @ + 1 ELSE @,
              !.stored = IF unload_ok THEN FALSE ELSE @,
              !.services = IF unload_ok THEN FALSE ELSE @,
              !.polled = IF unload_ok THEN FALSE ELSE @,
              !.state = IF unload_ok THEN "not_loaded" ELSE "failed_unload",
              !.pc = IF l.reloading THEN "reload_setup" ELSE "none"]

\* What client.close() can do: close the port, or raise.
CloseOutcomes == { "closed", "raised" }

\* client.connected after close(): a close() that returned has closed the
\* port; one that raised may have released it or not.
PortAfterClose(c, conn) == IF c = "closed" THEN { FALSE } ELSE { conn, FALSE }

\* Mutant of DisconnectHandler: the except clause is missing.
DisconnectHandlerReraise(c) == IF c = "raised" THEN "raised" ELSE "returned"

\* disconnect(): the call of close() sits in try / `except Exception`, which
\* logs a warning; the method returns None either way.
DisconnectHandler(c) == "returned"

\* async_unload_platforms returns unload_ok; with unload_ok True the
\* coordinator's disconnect() calls the client's synchronous close().
UnloadPlatformsReturn ==
    /\ life.pc = "unload_platforms"
    /\ \E unload_ok \in BOOLEAN, c \in CloseOutcomes :
          \E after \in PortAfterClose(c, connected) :
             /\ life' = AfterUnloadPlatforms(life, unload_ok)
             /\ connected' = IF unload_ok THEN after ELSE connected
    /\ UNCHANGED << hub, flow, trip, diag, closeCall, hasData, data, dev, pollPc, pollIdx, building, reads,
                    cycle, refreshRequested, task, wire >>

\* async_reload_entry goes on to async_setup_entry.
ReloadSetup ==
    /\ life.pc = "reload_setup"
    /\ NewCoordinator

(***************************************************************************)
(* disconnect() called on its own, in whatever state the client is in.     *)
(* closeCall is bookkeeping: how many calls were made, how the last one    *)
(* ended, whether a close() raised, the client states the calls met.       *)
(***************************************************************************)
\* The model makes at most this many disconnect() calls outside an unload.
MaxCloseCalls == 2

NoCloseCall == [calls |-> 0, result |-> "none", raised |-> FALSE, seen |-> {}]

\* One disconnect() call: close() is synchronous, the call has no await.
Disconnect ==
    /\ closeCall.calls < MaxCloseCalls
    /\ \E c \in CloseOutcomes :
          \E after \in PortAfterClose(c, connected) :
             /\ connected' = after
             /\ closeCall' = [calls  |-> closeCall.calls + 1,
                              result |-> DisconnectHandler(c),
                              raised |-> (closeCall.raised \/ c = "raised"),
                              seen   |-> closeCall.seen \cup
                                         { IF connected THEN "connected" ELSE "notconnected" }]
    /\ UNCHANGED << hub, flow, trip, diag, hasData, data, dev, pollPc, pollIdx, building, reads, cycle,
                    refreshRequested, task, wire, life >>

(***************************************************************************)
(* Diagnostic pass: BrinkCoordinator.async_read_all_registers, called by   *)
(* the read_all_registers service.  It reads every input register and then *)
(* every holding register of the catalog into a dict of its own, under     *)
(* f"input_{key}" / f"holding_{key}" (the pair <<bank, key>> here).        *)
(***************************************************************************)
NumHolding == Len(HOLDING_REGISTERS)
NumDiag    == Len(INPUT_REGISTERS) + Len(HOLDING_REGISTERS)

DiagBank(i) == IF i <= NumInput THEN "input" ELSE "holding"
DiagKey(i)  == IF i <= NumInput THEN INPUT_REGISTERS[i].key
               ELSE HOLDING_REGISTERS[i - NumInput].key
DiagName(i) == << DiagBank(i), DiagKey(i) >>

\* Input loop: value = result.registers[0]; if "scale" in config: value =
\* value * config["scale"].  Holding loop: result.registers[0].
DiagValue(i, raw) ==
    IF i <= NumInput THEN ScaleValue(INPUT_REGISTERS[i], raw) ELSE Val(raw, 1)

\* The body of both loops: a good response is stored under the prefixed
\* name, an error response or a raised exception leaves the name out.
DiagAfterRead(b, i, outcome) ==
    IF outcome.kind = "ok" THEN Put(b, DiagName(i), DiagValue(i, outcome.raw)) ELSE b

\* Mutant of DataAfterDiag: the pass publishes its dict as the snapshot.
DataAfterDiagPublished(d, b) == b

\* coordinator.data after a step of the pass: the pass fills a local dict and
\* returns it; self.data is not assigned.
DataAfterDiag(d, b) == d

\* What a read of the pass can answer, as for the poll cycle.
DiagOutcomes(i, env) ==
    IF ~connected THEN { [kind |-> "exception", raw |-> 0] }
    ELSE { [kind |-> k, raw |-> 0] :
             k \in IF DiagKey(i) \in env.failable THEN env.kinds ELSE {} }
         \cup (IF i <= NumInput THEN { [kind |-> "ok", raw |-> w] : w \in env.words }
               ELSE { [kind |-> "ok", raw |-> dev[DiagKey(i)]] })

NoReads == [k \in {} |-> [kind |-> "ok", raw |-> 0]]

IdleDiag == [pc |-> "idle", idx |-> 0, data |-> EmptyMap, reads |-> NoReads,
             result |-> "none"]

\* The service calls the pass: `if not self.client.connected` awaits
\* connect(), otherwise the first read is issued.
DiagBegin ==
    /\ diag.pc \in { "idle", "done" }
    /\ diag' = IF NeedsConnect(connected)
                  THEN [IdleDiag EXCEPT !.pc = "connect"]
                  ELSE [IdleDiag EXCEPT !.pc = "read", !.idx = 1]
    /\ data' = DataAfterDiag(data, EmptyMap)
    /\ UNCHANGED << hub, flow, trip, closeCall, connected, hasData, dev, pollPc, pollIdx, building, reads,
                    cycle, refreshRequested, task, wire, life >>

\* connect() comes back, connected or not; the result is not looked at.
DiagConnectReturn ==
    /\ diag.pc = "connect"
    /\ \E ok \in BOOLEAN : connected' = (connected \/ ok)
    /\ diag' = [diag EXCEPT !.pc = "read", !.idx = 1]
    /\ data' = DataAfterDiag(data, diag.data)
    /\ UNCHANGED << hub, flow, trip, closeCall, hasData, dev, pollPc, pollIdx, building, reads,
                    cycle, refreshRequested, task, wire, life >>

\* connect() raises: the outer `except Exception` logs and returns {}.
DiagConnectRaise ==
    /\ diag.pc = "connect"
    /\ diag' = [diag EXCEPT !.pc = "done", !.result = "empty", !.data = EmptyMap]
    /\ data' = DataAfterDiag(data, EmptyMap)
    /\ UNCHANGED << hub, flow, trip, closeCall, connected, hasData, dev, pollPc, pollIdx, building, reads,
                    cycle, refreshRequested, task, wire, life >>

\* The awaited read answers; the loop body handles it and issues the next
\* read, or returns the dict after the last holding register.
DiagReadReturn(env) ==
    /\ diag.pc = "read"
    /\ \E o \in DiagOutcomes(diag.idx, env) :
          LET last == diag.idx = NumDiag
              b    == DiagAfterRead(diag.data, diag.idx, o)
          IN /\ diag' = [diag EXCEPT !.data = b,
                                     !.reads = Put(@, DiagName(diag.idx), o),
                                     !.idx = IF last THEN 0 ELSE @ + 1,
                                     !.pc = IF last THEN "done" ELSE "read",
                                     !.result = IF last THEN "returned" ELSE @]
             /\ data' = DataAfterDiag(data, b)
    /\ UNCHANGED << hub, flow, trip, closeCall, connected, hasData, dev, pollPc, pollIdx, building, reads,
                    cycle, refreshRequested, task, wire, life >>

(***************************************************************************)
(* Several config entries: async_setup_entry, async_unload_entry and       *)
(* async_reload_entry of __init__.py as they act on hass.data[DOMAIN] and  *)
(* on the services.  The handlers of different entries run as tasks of the *)
(* one event loop and interleave at their awaits.  hub.regs is             *)
(* bookkeeping: the async_setup_services calls since the services were     *)
(* last removed.                                                           *)
(***************************************************************************)
\* The model has this many config entries.
MaxEntries == 2

\* The model counts async_setup_services calls up to this number.
MaxRegistrations == 2

EntryIds == 1..MaxEntries

NoHub ==
    [stored |-> {}, services |-> FALSE, regs |-> 0,
     pc |-> [e \in EntryIds |-> "none"],
     state |-> [e \in EntryIds |-> "not_loaded"],
     reloading |-> [e \in EntryIds |-> FALSE]]

\* async_setup_entry after its first refresh: a failed refresh raises
\* ConfigEntryNotReady; otherwise hass.data[DOMAIN][entry_id] = coordinator
\* and the platforms are forwarded.
AfterFirstRefresh(h, e, ok) ==
    IF ok THEN [h EXCEPT !.stored = @ \cup {e}, !.pc[e] = "forward"]
    ELSE [h EXCEPT !.pc[e] = "none", !.state[e] = "setup_retry", !.reloading[e] = FALSE]

\* `if len(hass.data[DOMAIN]) == 1:` the test in front of async_setup_services.
ServicesDue(h) == Cardinality(h.stored) = 1

\* async_setup_entry after async_forward_entry_setups: the services are
\* registered on the test above; return True.
AfterForward(h, e) ==
    [h EXCEPT !.services = (@ \/ ServicesDue(h)),
              !.regs = IF ServicesDue(h) /\ @ < MaxRegistrations THEN @ + 1 ELSE @,
              !.pc[e] = "none", !.state[e] = "loaded", !.reloading[e] = FALSE]

\* async_unload_entry after async_unload_platforms: `if unload_ok:` the
\* entry is popped and, `if not hass.data[DOMAIN]`, the services removed.
\* async_reload_entry goes on to async_setup_entry whatever was returned.
AfterUnload(h, e, unload_ok) ==
    LET st == IF unload_ok THEN h.stored \ {e} ELSE h.stored
        last == unload_ok /\ st = {}
    IN [h EXCEPT !.stored = st,
                 !.services = IF last THEN FALSE ELSE @,
                 !.regs = IF last THEN 0 ELSE @,
                 !.state[e] = IF unload_ok THEN "not_loaded" ELSE "failed_unload",
                 !.pc[e] = IF h.reloading[e] THEN "first_refresh" ELSE "none"]

\* The host sets an entry up: first, again after ConfigEntryNotReady, or
\* after an unload.
HubSetupBegin(e) ==
    /\ hub.pc[e] = "none"
    /\ hub.state[e] \in { "not_loaded", "setup_retry" }
    /\ hub' = [hub EXCEPT !.pc[e] = "first_refresh", !.state[e] = "setting_up"]
    /\ UNCHANGED << engineVars, flow, trip >>

HubFirstRefreshReturn(e) ==
    /\ hub.pc[e] = "first_refresh"
    /\ \E ok \in BOOLEAN : hub' = AfterFirstRefresh(hub, e, ok)
    /\ UNCHANGED << engineVars, flow, trip >>

HubForwardReturn(e) ==
    /\ hub.pc[e] = "forward"
    /\ hub' = AfterForward(hub, e)
    /\ UNCHANGED << engineVars, flow, trip >>

HubUnloadBegin(e) ==
    /\ hub.pc[e] = "none"
    /\ hub.state[e] = "loaded"
    /\ hub' = [hub EXCEPT !.pc[e] = "unload_platforms", !.state[e] = "unloading"]
    /\ UNCHANGED << engineVars, flow, trip >>

HubReloadBegin(e) ==
    /\ hub.pc[e] = "none"
    /\ hub.state[e] = "loaded"
    /\ hub' = [hub EXCEPT !.pc[e] = "unload_platforms", !.state[e] = "unloading",
                          !.reloading[e] = TRUE]
    /\ UNCHANGED << engineVars, flow, trip >>

HubUnloadPlatformsReturn(e) ==
    /\ hub.pc[e] = "unload_platforms"
    /\ \E unload_ok \in BOOLEAN : hub' = AfterUnload(hub, e, unload_ok)
    /\ UNCHANGED << engineVars, flow, trip >>

(***************************************************************************)
(* Config flow: validate_input (config_flow.py) opens a client of its own, *)
(* reads the device type and the serial number and closes the client in a  *)
(* finally clause.  flow.closes counts the client.close() calls.           *)
(***************************************************************************)
\* The baudrate options and the model keys of STEP_USER_DATA_SCHEMA.
BaudRates == { 9600, 19200, 38400, 57600, 115200 }
ModelKeys == { "flair_325", "flair_325_plus", "flair_350", "flair_400" }

IdleFlow == [pc |-> "idle", baudrate |-> 0, model |-> "none", created |-> FALSE,
             closes |-> 0, result |-> "none", exc |-> "none", close |-> "none",
             exit |-> "none"]

\* The except clauses around the body: ConnectionException, ModbusException
\* and Exception raise CannotConnect from the error, CannotConnect is
\* raised again.
ValidateHandler(e) == "CannotConnect"

\* Mutant of ValidateExit: the client is closed on the success path only.
ValidateExitLeaky(f, result, e, c) ==
    [f EXCEPT !.pc = "done", !.result = result,
              !.exc = IF result = "raised" THEN ValidateHandler(e) ELSE "none",
              !.closes = IF result = "returned" THEN @ + 1 ELSE @, !.close = c,
              !.exit = f.pc]

\* An exit from the try block: the exception, if any, goes through the
\* except clauses, and the finally clause calls client.close(), catching
\* what that raises.
ValidateExit(f, result, e, c) ==
    [f EXCEPT !.pc = "done", !.result = result,
              !.exc = IF result = "raised" THEN ValidateHandler(e) ELSE "none",
              !.closes = @ + 1, !.close = c, !.exit = f.pc]

\* validate_input is called: a port that does not exist raises
\* CannotConnect before a client is made; otherwise the client is created
\* and connect() awaited.
ValidateBegin ==
    /\ flow.pc \in { "idle", "done" }
    /\ \E exists \in BOOLEAN, b \in BaudRates, m \in ModelKeys :
          flow' = IF exists
                     THEN [IdleFlow EXCEPT !.pc = "connect", !.baudrate = b, !.model = m,
                                           !.created = TRUE]
                     ELSE [IdleFlow EXCEPT !.pc = "done", !.baudrate = b, !.model = m,
                                           !.result = "raised", !.exc = "CannotConnect"]
    /\ UNCHANGED << engineVars, hub, trip >>

\* connect() returns: `if not client.connected` raises CannotConnect, else
\* the device type register is read.
ValidateConnectReturn ==
    /\ flow.pc = "connect"
    /\ \E ok \in BOOLEAN, c \in CloseOutcomes :
          flow' = IF ok THEN [flow EXCEPT !.pc = "read_type"]
                  ELSE ValidateExit(flow, "raised", "CannotConnect", c)
    /\ UNCHANGED << engineVars, hub, trip >>

ValidateConnectRaise ==
    /\ flow.pc = "connect"
    /\ \E e \in ExcKinds, c \in CloseOutcomes :
          flow' = ValidateExit(flow, "raised", e, c)
    /\ UNCHANGED << engineVars, hub, trip >>

\* The read of 4004 answers: an exception and an error response raise
\* CannotConnect, a value leads to the read of the serial number.
ValidateTypeRead ==
    /\ flow.pc = "read_type"
    /\ \E o \in { "ok", "error", "exception" }, c \in CloseOutcomes :
          flow' = IF o = "ok" THEN [flow EXCEPT !.pc = "read_serial"]
                  ELSE ValidateExit(flow, "raised", "CannotConnect", c)
    /\ UNCHANGED << engineVars, hub, trip >>

\* The read of 4010 answers with a value or an error response ("Unknown"):
\* device_info is returned.
ValidateSerialRead ==
    /\ flow.pc = "read_serial"
    /\ \E c \in CloseOutcomes : flow' = ValidateExit(flow, "returned", "none", c)
    /\ UNCHANGED << engineVars, hub, trip >>

\* The read of 4010 raises: it is not inside the inner try.
ValidateSerialRaise ==
    /\ flow.pc = "read_serial"
    /\ \E e \in ExcKinds, c \in CloseOutcomes :
          flow' = ValidateExit(flow, "raised", e, c)
    /\ UNCHANGED << engineVars, hub, trip >>

(***************************************************************************)
(* A value written to a holding register and read back by a poll cycle.    *)
(* A Modbus register is one 16-bit word: the device holds v as v mod 2^16, *)
(* and the holding loop stores result.registers[0] as it comes.            *)
(***************************************************************************)
\* imbalance offsets (const.py: min -15, max 15) and the power switch.
TripRegisters ==
    { [key |-> "supply_imbalance_offset",  address |-> 6035, min |-> -15, max |-> 15],
      [key |-> "exhaust_imbalance_offset", address |-> 6036, min |-> -15, max |-> 15],
      [key |-> "power_switch_position",    address |-> 8001, min |-> 0,   max |-> 3] }

IdleTrip == [stage |-> "idle", key |-> "none", v |-> 0, word |-> 0, snap |-> NoneVal]

\* The word a 16-bit register holds for the integer v.
RegisterWord(v) == v % 65536

\* An entity writes int(value), within its limits.  The client either puts
\* the value on the wire as a 16-bit word, which the device stores, or, for
\* a value that is no unsigned word, may refuse it by raising.
TripWrite ==
    /\ trip.stage \in { "idle", "polled", "failed" }
    /\ \E r \in TripRegisters : \E v \in r.min..r.max :
          \E sent \in (IF v < 0 THEN BOOLEAN ELSE { TRUE }) :
             trip' = [IdleTrip EXCEPT !.stage = IF sent THEN "written" ELSE "failed",
                                      !.key = r.key, !.v = v,
                                      !.word = IF sent THEN RegisterWord(v) ELSE 0]
    /\ UNCHANGED << engineVars, hub, flow >>

\* A poll cycle reads the register without error and publishes.
TripPoll ==
    /\ trip.stage = "written"
    /\ trip' = [trip EXCEPT !.stage = "polled",
                            !.snap = StoredValue(NumInput + 1, trip.word)]
    /\ UNCHANGED << engineVars, hub, flow >>

(***************************************************************************)
(* Specifications.  Spec is the poll engine against an environment that    *)
(* can answer every read in every way.  SpecWrite adds one write entry     *)
(* point invocation; SpecInterleave runs a flow setpoint and a power       *)
(* switch invocation side by side; SpecEntry runs a switch or a service;   *)
(* SpecLive is one guarded invocation under the event loop's fairness;     *)
(* SpecLifecycle is the config entry's setup, unload and reload.  The      *)
(* write specifications let only the modbus_control read fail and keep the *)
(* input registers at one word: an entry point reads nothing else from the *)
(* snapshot.                                                               *)
(***************************************************************************)
FullEnv  == [words |-> WireWords, kinds |-> { "error", "exception" },
             failable |-> PolledKeys]
WriteEnv == [words |-> { 153 }, kinds |-> { "error" },
             failable |-> { "modbus_control" }]

\* Every read of a connected client answers with a value.
LifeEnv == [words |-> { 153 }, kinds |-> {}, failable |-> {}]

FlowEntries  == { e \in Entries : e.entry = "flow_setpoint" }
PowerEntries == { e \in Entries : e.entry = "power_switch" }

Init ==
    /\ connected = FALSE
    /\ hasData = FALSE
    /\ data = EmptyMap
    /\ dev \in InitialDevices
    /\ pollPc = "idle"
    /\ pollIdx = 0
    /\ building = EmptyMap
    /\ reads = [k \in {} |-> [kind |-> "ok", raw |-> 0]]
    /\ cycle = NoCycle
    /\ refreshRequested = FALSE
    /\ task = [t \in Tasks |-> IdleTask]
    /\ wire = << >>
    /\ life = SetupEntered
    /\ diag = IdleDiag
    /\ closeCall = NoCloseCall
    /\ hub = NoHub
    /\ flow = IdleFlow
    /\ trip = IdleTrip

Next ==
    \/ PollBegin
    \/ PollConnectReturn
    \/ PollConnectRaise
    \/ PollReadReturn(FullEnv)
    \/ ConnectionLost

Spec == Init /\ [][Next]_vars

TaskStep(t) ==
    \/ TaskConnectReturn(t)
    \/ TaskConnectRaise(t)
    \/ TaskWriteOk(t)
    \/ TaskWriteFail(t)
    \/ TaskRefreshReturn(t)
    \/ TaskRefreshRaise(t)
    \/ TaskSleepReturn(t)

NextWrite ==
    \/ PollBegin
    \/ PollConnectReturn
    \/ PollConnectRaise
    \/ PollReadReturn(WriteEnv)
    \/ ConnectionLost
    \/ TaskStart(1, Entries)
    \/ TaskStep(1)

SpecWrite == Init /\ [][NextWrite]_vars

NextInterleave ==
    \/ PollBegin
    \/ PollConnectReturn
    \/ PollConnectRaise
    \/ PollReadReturn(WriteEnv)
    \/ TaskStart(1, FlowEntries)
    \/ TaskStart(2, PowerEntries)
    \/ \E t \in Tasks : TaskStep(t)

SpecInterleave == Init /\ [][NextInterleave]_vars

\* The control mode select and then a guarded entry point on a link that
\* can drop, every read of a connected client answering: the mode is set
\* to 1 and, when that invocation is over, the flow setpoint is set.  The
\* snapshot's mode can be behind the device's when the second one starts.
GuardEntries == { e \in FlowEntries : e.value = 200 }

ControlStart == task[1].pc = "idle" /\ TaskStart(2, ControlEntries)

FlowStart == task[2].pc = "done" /\ TaskStart(1, GuardEntries)

NextGuard ==
    \/ PollBegin
    \/ PollConnectReturn
    \/ PollConnectRaise
    \/ PollReadReturn(LifeEnv)
    \/ ConnectionLost
    \/ ControlStart
    \/ FlowStart
    \/ \E t \in Tasks : TaskStep(t)

SpecGuard == Init /\ [][NextGuard]_vars

\* One invocation of an entry point that writes once: a switch or a service.
NextEntry ==
    \/ PollBegin
    \/ PollConnectReturn
    \/ PollConnectRaise
    \/ PollReadReturn(WriteEnv)
    \/ ConnectionLost
    \/ TaskStart(1, SwitchEntries \cup ServiceEntries \cup ControlEntries)
    \/ TaskConnectReturn(1)
    \/ TaskConnectRaise(1)
    \/ TaskWriteOk(1)
    \/ TaskWriteFail(1)
    \/ TaskRefreshReturn(1)
    \/ TaskRefreshRaise(1)

SpecEntry == Init /\ [][NextEntry]_vars

\* One guarded invocation on a link that stays up once it is up, with the
\* scheduling the event loop gives: the update timer fires again and again,
\* an awaited client call or sleep comes back (timeout 5 s, 3 retries).
NextLive ==
    \/ PollBegin
    \/ PollConnectReturn
    \/ PollConnectRaise
    \/ PollReadReturn(WriteEnv)
    \/ TaskStart(1, Entries)
    \/ TaskStep(1)

\* The life cycle of one config entry: every read answers, the host sets
\* up, retries, unloads and reloads.

NextLifecycle ==
    \/ LifePollBegin
    \/ PollConnectReturn
    \/ PollConnectRaise
    \/ PollReadReturn(LifeEnv)
    \/ SetupAfterRefresh
    \/ SetupForwardReturn
    \/ SetupBegin
    \/ UnloadBegin
    \/ ReloadBegin
    \/ UnloadPlatformsReturn
    \/ ReloadSetup

SpecLifecycle == Init /\ [][NextLifecycle]_vars

\* One config entry is set up and unloaded while a guarded entry point of
\* one of its entities may be running: the entity is called while the
\* entry is loaded, and its task goes on whatever the entry does.
LoadedTaskStart ==
    /\ life.state = "loaded"
    /\ life.pc = "none"
    /\ TaskStart(1, GuardEntries)

NextShutdown ==
    \/ LifePollBegin
    \/ PollConnectReturn
    \/ PollConnectRaise
    \/ PollReadReturn(LifeEnv)
    \/ SetupAfterRefresh
    \/ SetupForwardReturn
    \/ UnloadBegin
    \/ UnloadPlatformsReturn
    \/ LoadedTaskStart
    \/ TaskStep(1)

SpecShutdown == Init /\ [][NextShutdown]_vars

\* The diagnostic service and disconnect() next to the poll cycle.
DiagEnv == [words |-> { 153 }, kinds |-> { "error" },
            failable |-> { "supply_pressure" }]

DiagStep ==
    \/ DiagConnectReturn
    \/ DiagConnectRaise
    \/ DiagReadReturn(DiagEnv)

NextDiag ==
    \/ PollBegin
    \/ PollConnectReturn
    \/ PollConnectRaise
    \/ PollReadReturn(LifeEnv)
    \/ DiagBegin
    \/ DiagStep
    \/ Disconnect

\* The device is in flow control mode; no operation here looks at the mode.
InitDiag == Init /\ dev["modbus_control"] = 2

SpecDiag == InitDiag /\ [][NextDiag]_vars

\* Every operation of the coordinator, one at a time: the timer fires, a
\* control is set, the diagnostic service or disconnect() is called when
\* nothing else is running; with the scheduling the event loop gives: an
\* awaited client call or sleep comes back.  Every read of a connected
\* client answers with a value.
AllEntries == { e \in Entries : e.entry = "flow_setpoint" /\ e.value = 200 }

Quiet ==
    /\ pollPc = "idle"
    /\ task[1].pc \in { "idle", "done" }
    /\ diag.pc \in { "idle", "done" }

QuietPollBegin == Quiet /\ PollBegin

QuietTaskStart == Quiet /\ TaskStart(1, AllEntries)

QuietDiagBegin == Quiet /\ DiagBegin

QuietDisconnect == Quiet /\ Disconnect

NextAll ==
    \/ QuietPollBegin
    \/ PollConnectReturn
    \/ PollConnectRaise
    \/ PollReadReturn(LifeEnv)
    \/ QuietTaskStart
    \/ TaskStep(1)
    \/ QuietDiagBegin
    \/ DiagStep
    \/ QuietDisconnect

SpecAll ==
    /\ Init
    /\ [][NextAll]_vars
    /\ WF_vars(PollConnectReturn \/ PollConnectRaise)
    /\ WF_vars(PollReadReturn(LifeEnv))
    /\ WF_vars(TaskStep(1))
    /\ WF_vars(DiagStep)

\* The handlers of the config entries.
NextHub ==
    \E e \in EntryIds :
        \/ HubSetupBegin(e)
        \/ HubFirstRefreshReturn(e)
        \/ HubForwardReturn(e)
        \/ HubUnloadBegin(e)
        \/ HubReloadBegin(e)
        \/ HubUnloadPlatformsReturn(e)

SpecHub == Init /\ [][NextHub]_vars

\* The config flow validates one input after another.
NextValidate ==
    \/ ValidateBegin
    \/ ValidateConnectReturn
    \/ ValidateConnectRaise
    \/ ValidateTypeRead
    \/ ValidateSerialRead
    \/ ValidateSerialRaise

SpecValidate == Init /\ [][NextValidate]_vars

\* Values written and read back.
NextRoundTrip == TripWrite \/ TripPoll

SpecRoundTrip == Init /\ [][NextRoundTrip]_vars

SpecLive ==
    /\ Init
    /\ [][NextLive]_vars
    /\ WF_vars(PollBegin)
    /\ WF_vars(PollConnectReturn \/ PollConnectRaise)
    /\ WF_vars(PollReadReturn(WriteEnv))
    /\ WF_vars(TaskStep(1))

(***************************************************************************)
(* Properties of the poll cycle, checked under Spec.                       *)
(***************************************************************************)
CycleOver == cycle.kind \in { "returned", "raised" }

FailedKeys == { k \in DOMAIN reads : reads[k].kind # "ok" }

\* The catalog's scale of a key as a denominator: 10 for 0.1, 1 for none.
DeclaredDen(k) ==
    IF \E c \in SeqRange(INPUT_REGISTERS) : c.key = k /\ c.hasScale THEN 10 ELSE 1

\* C1: partial failure isolation.  When a cycle has returned, every polled
\* register was attempted, the snapshot's keys are exactly the polled keys
\* whose read did not fail, and each key holds the word read in this cycle,
\* as tenths where the catalog declares the scale 0.1.
C1_PartialFailureIsolation ==
    cycle.kind = "returned" =>
        /\ DOMAIN reads = PolledKeys
        /\ DOMAIN data = PolledKeys \ FailedKeys
        /\ \A k \in DOMAIN data :
              data[k] = [num |-> reads[k].raw, den |-> DeclaredDen(k)]

\* A cycle of a connected client in which reads failed both ways and the
\* other registers, the scaled one among them, were stored.
C1_Witness ==
    /\ cycle.kind = "returned"
    /\ cycle.startConnected
    /\ \E k \in FailedKeys : reads[k].kind = "error"
    /\ \E k \in FailedKeys : reads[k].kind = "exception"
    /\ "supply_pressure" \in DOMAIN data
    /\ data["supply_pressure"] = [num |-> 65486, den |-> 10]
    /\ "modbus_control" \in DOMAIN data

\* C7: snapshot atomicity.  coordinator.data changes in one step only: the
\* step that handles the last read of a cycle, which replaces it by the
\* mapping that cycle has built from its own reads; while a cycle is under
\* way a consumer reads the snapshot of the cycle before.
C7_SnapshotAtomicity ==
    [][ (data' # data \/ hasData' # hasData) =>
            /\ pollPc = "read"
            /\ pollIdx = NumPolled
            /\ pollPc' = "idle"
            /\ cycle'.kind = "returned"
            /\ DOMAIN reads' = PolledKeys
            /\ hasData'
            /\ data' = building' ]_vars

\* A cycle is at its last read, has stored registers in its own mapping, and
\* the published snapshot is still the different, complete one of the cycle
\* before.
C7_Witness ==
    /\ pollPc = "read"
    /\ pollIdx = NumPolled
    /\ hasData
    /\ DOMAIN data = PolledKeys
    /\ DOMAIN building # {}
    /\ \E k \in DOMAIN building : building[k] # data[k]

\* C8: a reconnect that fails fails the cycle.  A cycle that began with the
\* client not connected and whose connect() raised or left the client not
\* connected ends by raising UpdateFailed (so it publishes nothing).
C8_ReconnectFailureFailsCycle ==
    (CycleOver /\ ~cycle.startConnected /\ cycle.reconnect \in { "raised", "notconnected" })
        => (cycle.kind = "raised" /\ cycle.exc = "UpdateFailed")

\* C9: a cycle that began with a connected client returns a snapshot and
\* raises nothing, whichever reads fail.
C9_ConnectedCycleNeverFails ==
    (CycleOver /\ cycle.startConnected) =>
        (cycle.kind = "returned" /\ hasData /\ data = building)

\* A cycle of a connected client in which every read failed, by error
\* response and by exception, has returned the empty snapshot.
C9_Witness ==
    /\ cycle.kind = "returned"
    /\ cycle.startConnected
    /\ FailedKeys = PolledKeys
    /\ \E k \in FailedKeys : reads[k].kind = "error"
    /\ \E k \in FailedKeys : reads[k].kind = "exception"
    /\ hasData
    /\ data = EmptyMap

\* C10: whatever leaves _async_update_data as an exception is an
\* UpdateFailed, whichever exception was raised inside the cycle.
C10_OnlyUpdateFailedEscapes ==
    cycle.kind = "raised" => (cycle.exc = "UpdateFailed" /\ cycle.cause \in ExcKinds)

\* A cycle has ended in UpdateFailed that was raised from an exception which
\* is neither a connection nor a Modbus error.
C10_Witness ==
    /\ cycle.kind = "raised"
    /\ cycle.cause = "Exception"
    /\ cycle.exc = "UpdateFailed"

\* One tenth of a raw word, exactly, and a raw word as it is.
Tenths(v) == [num |-> v, den |-> 10]
Whole(v)  == [num |-> v, den |-> 1]

\* C11: the scale is applied exactly once, at read time.  After a returned
\* cycle a sensor of a polled input register with the declared scale 0.1
\* shows one tenth of the raw word read, and a sensor of a register without
\* a declared scale, every polled holding register included, shows the raw
\* word itself; the consumer path does not scale again.
C11_ScaleAppliedOnce ==
    cycle.kind = "returned" =>
        \A k \in DOMAIN data :
            /\ k = "supply_pressure" => native_value(k) = Tenths(reads[k].raw)
            /\ k # "supply_pressure" => native_value(k) = Whole(reads[k].raw)

\* Raw 153 on the scaled register is shown as 15.3, raw 153 on the unscaled
\* input register as 153, and a holding register as the device holds it.
C11_Witness ==
    /\ cycle.kind = "returned"
    /\ native_value("supply_pressure") = [num |-> 153, den |-> 10]
    /\ native_value("device_type") = [num |-> 153, den |-> 1]
    /\ native_value("modbus_control") = [num |-> dev["modbus_control"], den |-> 1]
    /\ dev["modbus_control"] = 2

\* A 16-bit wire word read as two's complement.
Signed16(w) == IF w >= 32768 THEN w - 65536 ELSE w

\* C12: register values are signed 16-bit.  After a returned cycle every
\* stored value is the wire word read as two's complement, before scaling:
\* its unscaled part lies in -32768..32767 (wire word 65486 on a register
\* scaled by one tenth is stored as -5.0).
C12_SignedRegisters ==
    cycle.kind = "returned" =>
        \A k \in DOMAIN data :
            /\ data[k].num = Signed16(reads[k].raw)
            /\ data[k].num \in -32768..32767

\* C16: snapshot keys.  Every key of the published snapshot, and of the
\* mapping a cycle is building, is the key of a descriptor of one of the two
\* tables; input keys and polled holding keys do not collide, so the reads
\* handled so far in a cycle went to as many different keys and no value of
\* the cycle was overwritten.
C16_SnapshotKeys ==
    /\ DOMAIN data \subseteq InputKeys \cup HoldingKeys
    /\ DOMAIN building \subseteq InputKeys \cup HoldingKeys
    /\ InputKeys \cap PolledHoldingKeys = {}
    /\ pollPc = "read" => Cardinality(DOMAIN reads) = pollIdx - 1
    /\ cycle.kind = "returned" =>
          Cardinality(DOMAIN data) = NumPolled - Cardinality(FailedKeys)

\* A returned cycle in which every read answered: the snapshot holds one
\* entry per polled register, input and holding.
C16_Witness ==
    /\ cycle.kind = "returned"
    /\ FailedKeys = {}
    /\ DOMAIN data = PolledKeys
    /\ Cardinality(DOMAIN data) = NumPolled

(***************************************************************************)
(* Properties of the write path, checked under SpecWrite and (C6) under    *)
(* SpecInterleave.                                                         *)
(***************************************************************************)
\* The write_register calls of task t, in issue order, as <<address, value>>.
WritesOf(t) ==
    LET F[i \in 0..Len(wire)] ==
            IF i = 0 THEN << >>
            ELSE IF wire[i].task = t
                    THEN Append(F[i - 1], << wire[i].address, wire[i].value >>)
                    ELSE F[i - 1]
    IN F[Len(wire)]

ModeWrite(r)   == << 8000, r.required >>
TargetWrite(r) == << IF r.target = "flow_setpoint" THEN 8002 ELSE 8001, r.value >>

\* A task whose entry point found the cached mode different from its V.
Guarded(t) == task[t].entry # "none" /\ task[t].guarded

\* C2 as stated: a guarded invocation that found the cached mode different
\* from V has, when it is over, issued exactly two device writes, the mode
\* write and then the target write.
C2_ExactlyTwoWrites ==
    \A t \in Tasks :
        (Guarded(t) /\ task[t].pc = "done") =>
            WritesOf(t) = << ModeWrite(task[t]), TargetWrite(task[t]) >>

\* C2 as amended: a guarded invocation issues at most two device writes,
\* the mode write first and the target write second; the target write is
\* issued only after the mode write call has returned success and the settle
\* delay is over; an invocation whose target call has reached write_register,
\* so every one whose target write succeeded, has issued exactly the two.
C2_GuardedWriteOrdering ==
    \A t \in Tasks :
        Guarded(t) =>
            /\ WritesOf(t) \in { << >>, << ModeWrite(task[t]) >>,
                                << ModeWrite(task[t]), TargetWrite(task[t]) >> }
            /\ Len(WritesOf(t)) = 2 => (task[t].control_success /\ task[t].settled)
            /\ ( \/ (task[t].phase = "target" /\ task[t].pc \in { "write", "refresh" })
                 \/ (task[t].pc = "done" /\ task[t].success) )
               => WritesOf(t) = << ModeWrite(task[t]), TargetWrite(task[t]) >>
            /\ (task[t].pc = "done" /\ ~task[t].control_success) => Len(WritesOf(t)) <= 1

\* The scenario of the specification: flow setpoint 200 with the mode cached
\* as something else; mode write, delay, target write, success.
C2_Witness ==
    \E t \in Tasks :
        /\ Guarded(t)
        /\ task[t].entry = "flow_setpoint"
        /\ task[t].value = 200
        /\ task[t].pc = "done"
        /\ task[t].success
        /\ WritesOf(t) = << << 8000, 2 >>, << 8002, 200 >> >>

\* The invocation ended by telling its caller that it failed: it raised, or
\* returned a failure result.  "returned" is the plain return of None that
\* also ends a successful invocation.
ReportsFailure(r) == r.result \in { "raised", "failure" }

\* C3: guarded write abort.  When the mode write of a guarded invocation has
\* failed, the invocation never attempts the target write and reports
\* failure to its caller.
C3_GuardedWriteAbort ==
    \A t \in Tasks :
        (Guarded(t) /\ task[t].pc = "done" /\ ~task[t].control_success) =>
            /\ Len(WritesOf(t)) <= 1
            /\ task[t].phase = "mode"
            /\ ReportsFailure(task[t])

InBounds(key, v) == HoldingConfig(key).min <= v /\ v <= HoldingConfig(key).max

\* C4: bounds enforcement.  Every value sent to the device lies within the
\* declared [min, max] of the register written, and an invocation whose
\* value lies outside them does no device I/O: no connect(), no
\* write_register.
C4_BoundsEnforced ==
    /\ \A i \in DOMAIN wire : InBounds(AddressKey(wire[i].address), wire[i].value)
    /\ \A t \in Tasks :
          (task[t].entry # "none" /\ ~InBounds(task[t].target, task[t].value)) =>
              (task[t].pc = "done" /\ WritesOf(t) = << >>)

\* The client calls that are awaiting a Modbus answer on the open link: the
\* read of the poll cycle (0) and the write_register of each task.
InFlight ==
    (IF pollPc = "read" /\ connected THEN { 0 } ELSE {})
    \cup { t \in Tasks : task[t].pc = "write" /\ connected }

\* C5: mutual exclusion on the wire.  At most one Modbus transaction is in
\* flight on the client; a write does not start while a read of the poll
\* cycle is awaited.
C5_MutualExclusion == Cardinality(InFlight) <= 1

\* C6: write invocations do not interleave.  All device writes of one
\* invocation precede all device writes of the other: no write of another
\* invocation lies between two writes of one invocation.
C6_NoInterleaving ==
    \A i, j, k \in DOMAIN wire :
        (i < j /\ j < k /\ wire[i].task = wire[k].task) => wire[j].task = wire[i].task

(***************************************************************************)
(* Properties of the write entry points and of async_write_register,       *)
(* checked under SpecEntry (one plain write), SpecWrite and, with the      *)
(* event loop's fairness, SpecLive.                                        *)
(***************************************************************************)
\* C13: write then refresh.  A device write succeeds only in a step that
\* asks for a refresh, async_write_register returns True only from the await
\* of that refresh call, and once the target write of an invocation has
\* succeeded a cycle that began after it eventually returns and publishes a
\* snapshot that shows the register as the device now holds it.
C13_WriteThenRefresh ==
    /\ [][ \A t \in Tasks :
              /\ (task[t].pc = "write" /\ task'[t].pc = "refresh") => refreshRequested'
              /\ (task[t].call # "True" /\ task'[t].call = "True") => task[t].pc = "refresh"
          ]_vars
    /\ \A t \in Tasks :
          (task[t].pc = "refresh" /\ task[t].phase = "target")
             ~> ( /\ ~refreshRequested
                  /\ cycle.kind = "returned"
                  /\ task[t].target \in DOMAIN data
                  /\ data[task[t].target] = Whole(dev[task[t].target]) )

\* The flow setpoint invocation has returned with success and a cycle that
\* began after its write has published 200 for flow_setpoint.
C13_Witness ==
    /\ task[1].pc = "done"
    /\ task[1].success
    /\ task[1].call = "True"
    /\ ~refreshRequested
    /\ cycle.kind = "returned"
    /\ "flow_setpoint" \in DOMAIN data
    /\ data["flow_setpoint"] = [num |-> 200, den |-> 1]

\* C14: write failures are never swallowed.  An invocation of a write entry
\* point whose device write failed ends by telling its caller so: it raises
\* or returns a failure result.
C14_WriteFailuresReported ==
    \A t \in Tasks :
        (task[t].pc = "done" /\ task[t].phase = "target" /\ task[t].call # "True")
            => ReportsFailure(task[t])

\* C15: write result taxonomy.  A call of async_write_register that ended
\* on an error response of the device returned False, and one that ended on
\* a transport failure (connect() or write_register raised) reached its
\* caller as an exception, not as False.
C15_WriteResultTaxonomy ==
    \A t \in Tasks :
        /\ task[t].cause = "error" => task[t].call = "False"
        /\ task[t].cause \in { "connect", "exception" } => task[t].call = "raised"

\* C18 as stated: a write call made while a poll cycle was running reaches
\* write_register before a second register operation of that cycle
\* completes.
C18_WithinOneOperation ==
    \A t \in Tasks :
        (task[t].pc = "connect" /\ task[t].inCycle) => task[t].waited <= 1

\* C18 as amended: a write never waits for the poll cycle.  With the client
\* connected, the step that makes the call issues write_register, whatever
\* the cycle is doing; with the client not connected the call awaits its own
\* connect() and the step in which that returns issues write_register, or
\* ends the call as failed when it raises; and a call that awaits connect()
\* eventually leaves it.
C18_WriteNotStarved ==
    /\ [][ \A t \in Tasks :
              /\ (task[t].pc \in { "idle", "sleep" } /\ task'[t].pc # task[t].pc /\ connected)
                    => /\ task'[t].pc = "write"
                       /\ Len(wire') = Len(wire) + 1
                       /\ wire'[Len(wire')].task = t
              /\ (task[t].pc = "connect" /\ task'[t].pc # "connect")
                    => \/ /\ task'[t].pc = "write"
                          /\ Len(wire') = Len(wire) + 1
                          /\ wire'[Len(wire')].task = t
                       \/ /\ task'[t].cause = "connect"
                          /\ task'[t].call = "False"
                          /\ wire' = wire
          ]_vars
    /\ \A t \in Tasks : (task[t].pc = "connect") ~> (task[t].pc # "connect")

\* A cycle has reads left to do and the write call made meanwhile is already
\* on the wire.
C18_Witness ==
    /\ pollPc = "read"
    /\ pollIdx < NumPolled
    /\ pollIdx > 1
    /\ task[1].pc = "write"
    /\ task[1].phase = "mode"
    /\ Len(wire) = 1

(***************************************************************************)
(* Properties of the config entry life cycle, checked under SpecLifecycle. *)
(***************************************************************************)
\* The clients that hold the serial port open: those left behind by
\* coordinators used before and the client of the coordinator in use.
PortHolders == life.orphans + (IF connected THEN 1 ELSE 0)

\* C19: exclusive port ownership.  Across setup, failed setup and retry,
\* reload and unload, at most one client holds the serial port of the entry
\* open.
C19_ExclusivePortOwnership == PortHolders <= 1

\* An unload has returned and no setup has begun since.
UnloadReturned ==
    /\ life.state \in { "not_loaded", "failed_unload" }
    /\ life.pc \in { "none", "reload_setup" }

\* C20: shutdown closes the port exactly once.  When an unload of an entry
\* whose client held the port has returned, the client's close was invoked
\* exactly once during it and the port is closed, also when the platforms
\* reported that unloading failed.
C20_ClosedExactlyOnce ==
    (UnloadReturned /\ life.wasOpen) => (life.closes = 1 /\ ~connected)

(***************************************************************************)
(* Properties of disconnect() and of the diagnostic pass, checked under    *)
(* SpecDiag.                                                               *)
(***************************************************************************)
\* C21: disconnect() never raises: whatever state the client is in when it
\* is called (never connected, connected, already closed) and whatever the
\* client's close() does, raising included, the call returns normally; a
\* second call right after the first returns normally as well.
C21_DisconnectNeverRaises ==
    closeCall.calls > 0 => closeCall.result = "returned"

\* Two calls have been made, one close() raised, one call met an open port
\* and one a closed one.
C21_Witness ==
    /\ closeCall.calls = 2
    /\ closeCall.raised
    /\ closeCall.seen = { "connected", "notconnected" }
    /\ closeCall.result = "returned"

DiagDone == diag.pc = "done" /\ diag.result = "returned"

DiagFailedNames == { n \in DOMAIN diag.reads : diag.reads[n].kind # "ok" }

\* C22: the dict async_read_all_registers returns has, for every register
\* of the two tables whose read succeeded, an entry under its prefixed name
\* holding the register value as read, with no scale applied, and has no
\* entry for the registers whose read failed.
C22_DumpHoldsRawValues ==
    DiagDone =>
        /\ DOMAIN diag.data = { DiagName(i) : i \in 1..NumDiag } \ DiagFailedNames
        /\ \A n \in DOMAIN diag.data : diag.data[n] = Val(diag.reads[n].raw, 1)

\* C29: the diagnostic pass issues only reads and leaves the published
\* snapshot alone: no step of the pass writes a register, changes or
\* replaces coordinator.data, or requests a refresh.
C29_DumpLeavesSnapshot ==
    [][ diag' # diag =>
          /\ data' = data
          /\ hasData' = hasData
          /\ wire' = wire
          /\ dev' = dev
          /\ refreshRequested' = refreshRequested ]_vars

\* A pass has returned a dict that differs from the published snapshot's
\* content while a snapshot is published.
C29_Witness ==
    /\ DiagDone
    /\ hasData
    /\ DOMAIN data # {}
    /\ DOMAIN diag.data # {}
    /\ wire = << >>

(***************************************************************************)
(* Order and freshness of the reads of a cycle, checked under Spec.        *)
(***************************************************************************)
\* The order the claim gives: the input registers in catalog order, then
\* the polled holding registers in catalog order.
PollOrder ==
    << "device_type", "supply_pressure",
       "modbus_control", "power_switch_position", "flow_setpoint" >>

ReadsDone(n) == { PollOrder[j] : j \in 1..n }

\* C24: every register of a cycle is attempted once, in a fixed order: all
\* input registers in catalog order, then the polled holding registers in
\* catalog order; a failed read neither skips a later register nor reads an
\* earlier one again.
C24_FixedReadOrder ==
    /\ [](pollPc = "read" =>
            /\ pollIdx \in 1..Len(PollOrder)
            /\ PollKey(pollIdx) = PollOrder[pollIdx]
            /\ DOMAIN reads = ReadsDone(pollIdx - 1)
            /\ cycle.issued = pollIdx)
    /\ [](cycle.kind = "returned" =>
            /\ DOMAIN reads = ReadsDone(Len(PollOrder))
            /\ cycle.issued = Len(PollOrder))
    /\ [][ pollPc = "read" /\ reads' # reads =>
             /\ reads' = Put(reads, PollOrder[pollIdx], reads'[PollOrder[pollIdx]])
             /\ \/ pollPc' = "read" /\ pollIdx' = pollIdx + 1
                \/ pollPc' = "idle" /\ pollIdx = Len(PollOrder) ]_vars

\* A cycle has returned after a failed read of an input register and of a
\* holding register, with registers after each of them read successfully.
C24_Witness ==
    /\ cycle.kind = "returned"
    /\ reads["device_type"].kind = "error"
    /\ reads["supply_pressure"].kind = "ok"
    /\ reads["modbus_control"].kind = "exception"
    /\ reads["flow_setpoint"].kind = "ok"

\* C26: no value survives from an earlier cycle: a key that is in the
\* snapshot and whose read fails in the next completed cycle has no entry
\* once that cycle's result is published.
C26_NoStaleValues ==
    [][ cycle.kind = "running" /\ cycle'.kind = "returned" =>
          /\ hasData'
          /\ \A k \in DOMAIN data :
                (k \in DOMAIN reads' /\ reads'[k].kind # "ok") => k \notin DOMAIN data' ]_vars

\* A cycle is about to return: the snapshot of an earlier cycle has an
\* entry for supply_pressure and modbus_control, and this cycle's reads of
\* both have failed.
C26_Witness ==
    /\ pollPc = "read"
    /\ pollIdx = NumPolled
    /\ hasData
    /\ { "supply_pressure", "modbus_control" } \subseteq DOMAIN data
    /\ { "supply_pressure", "modbus_control" } \subseteq FailedKeys

(***************************************************************************)
(* The guard decision and the writes of the entry points.                  *)
(***************************************************************************)
\* An invocation of one of the two guarded entry points.
GuardedEntry(t) == task[t].entry \in GuardedEntryNames

\* The cached mode an entry point starting now would find equal to v.
SnapshotModeIs(v) ==
    hasData /\ "modbus_control" \in DOMAIN data /\ data["modbus_control"] = Val(v, 1)

\* C25 as stated: an invocation of a guarded entry point that found the
\* cached mode equal to V has, when it is over, issued exactly one device
\* write, the target write.
C25_ExactlyOneWrite ==
    \A t \in Tasks :
        (GuardedEntry(t) /\ ~task[t].guarded /\ task[t].pc = "done") =>
            WritesOf(t) = << TargetWrite(task[t]) >>

\* C25 as amended: the guard decision is taken from the snapshot alone, in
\* the step that starts the invocation and without a register read: the
\* mode write is the invocation's first call exactly when the snapshot is
\* missing, has no modbus_control or has one that differs from V.  An
\* invocation that found the cached mode equal to V never writes the mode
\* register and issues at most one device write, the target write; it has
\* issued exactly that one once its call has reached write_register,
\* whatever mode the device is in.
C25_GuardUsesSnapshot ==
    /\ [][ \A t \in Tasks :
             (task[t].pc = "idle" /\ task'[t].pc # "idle" /\ task'[t].entry \in GuardedEntryNames) =>
                 /\ task'[t].guarded <=> ~SnapshotModeIs(task'[t].required)
                 /\ task'[t].phase = IF SnapshotModeIs(task'[t].required) THEN "target" ELSE "mode"
                 /\ reads' = reads /\ pollPc' = pollPc /\ pollIdx' = pollIdx ]_vars
    /\ [](\A t \in Tasks :
            (GuardedEntry(t) /\ task[t].guarded /\ WritesOf(t) # << >>) =>
                WritesOf(t)[1] = ModeWrite(task[t]))
    /\ [](\A t \in Tasks :
            (GuardedEntry(t) /\ ~task[t].guarded) =>
                /\ WritesOf(t) \in { << >>, << TargetWrite(task[t]) >> }
                /\ ( \/ task[t].pc \in { "write", "refresh" }
                     \/ (task[t].pc = "done" /\ task[t].success) )
                   => WritesOf(t) = << TargetWrite(task[t]) >>)

\* A flow setpoint invocation found the mode cached as 2 and has written
\* its target only, while the device is in mode 1.
C25_Witness ==
    /\ task[1].entry = "flow_setpoint"
    /\ ~task[1].guarded
    /\ task[1].pc = "done"
    /\ task[1].success
    /\ WritesOf(1) = << << 8002, 200 >> >>
    /\ dev["modbus_control"] = 1

\* The entry points of the model that the claims call unguarded.
PlainEntryNames == { "imbalance_switch", "set_flow_speed", "modbus_control_select" }

PlainEntry(t) == task[t].entry \in PlainEntryNames

\* The one write of an unguarded invocation: its value to its register.
PlainWrite(r) == << HoldingConfig(r.target).address, r.value >>

\* C27: the polled holding registers cover every writable control, the
\* switch registers included: once a write has succeeded and a refresh
\* that began after it has read every register successfully, the snapshot
\* has the key of the register that was written.
C27_WrittenKeyInSnapshot ==
    \A t \in Tasks :
        ( /\ task[t].pc = "done"
          /\ task[t].success
          /\ ~refreshRequested
          /\ cycle.kind = "returned"
          /\ FailedKeys = {} )
        => task[t].target \in DOMAIN data

\* C28 as stated: an unguarded invocation has, when it is over, issued
\* exactly one write_register call, to its target address.
C28_ExactlyOneWrite ==
    \A t \in Tasks :
        (PlainEntry(t) /\ task[t].pc = "done") =>
            WritesOf(t) = << PlainWrite(task[t]) >>

\* C28 as amended: an unguarded invocation issues at most one
\* write_register call, to its target address with its value, and so never
\* writes modbus_control unless that is its target; it has issued exactly
\* that one once its call has reached write_register.
C28_PlainWriteOnly ==
    \A t \in Tasks :
        PlainEntry(t) =>
            /\ ~task[t].guarded
            /\ WritesOf(t) \in { << >>, << PlainWrite(task[t]) >> }
            /\ ( \/ task[t].pc \in { "write", "refresh" }
                 \/ (task[t].pc = "done" /\ task[t].success) )
               => WritesOf(t) = << PlainWrite(task[t]) >>
            /\ task[t].target # "modbus_control" =>
                   \A i \in 1..Len(wire) : wire[i].task = t => wire[i].address # 8000

\* The imbalance switch was turned on while the snapshot's mode was not 0:
\* one write of 1 to 6033 and nothing else.
C28_Witness ==
    \E t \in Tasks :
        /\ task[t].entry = "imbalance_switch"
        /\ task[t].pc = "done"
        /\ task[t].success
        /\ ~SnapshotModeIs(0)
        /\ wire = << [task |-> t, address |-> 6033, value |-> 1] >>

(***************************************************************************)
(* Properties of all operations together, checked under SpecAll.           *)
(***************************************************************************)
\* A task is inside an invocation of a write entry point.
TaskBusy(t) == task[t].pc \notin { "idle", "done" }

DiagBusy == diag.pc \in { "connect", "read" }

\* C23: every operation terminates when every device call returns or
\* raises: a poll cycle, a write invocation and a diagnostic pass that have
\* begun come to their end, and disconnect() is over within its call; a
\* poll cycle issues at most |INPUT_REGISTERS| + |polled holding registers|
\* reads, a diagnostic pass one per catalog register, a guarded write at
\* most two writes; nothing is tried again.
C23_Termination ==
    /\ [](cycle.issued <= Len(INPUT_REGISTERS) + Len(setting_registers))
    /\ [](Cardinality(DOMAIN diag.reads) <= Len(INPUT_REGISTERS) + Len(HOLDING_REGISTERS))
    /\ [](\A t \in Tasks : Len(WritesOf(t)) <= 2)
    /\ [](closeCall.calls > 0 => closeCall.result \in { "returned", "raised" })
    /\ (pollPc # "idle") ~> (pollPc = "idle")
    /\ DiagBusy ~> (diag.pc = "done")
    /\ \A t \in Tasks : TaskBusy(t) ~> (task[t].pc = "done")

\* A guarded invocation is over with its two writes while a cycle with all
\* its reads issued has returned, a diagnostic pass has returned and a
\* disconnect() call has been made.
C23_Witness ==
    /\ task[1].pc = "done"
    /\ task[1].guarded
    /\ Len(WritesOf(1)) = 2
    /\ cycle.kind = "returned"
    /\ cycle.issued = NumPolled
    /\ diag.pc = "done"
    /\ Cardinality(DOMAIN diag.reads) = NumDiag
    /\ closeCall.calls > 0

\* C30: connect() is lazy: an operation (poll cycle, async_write_register
\* call, diagnostic pass) calls client.connect() only in its first step,
\* before any register operation of its own, only when the client reports
\* not connected, and so at most once.
C30_LazyConnect ==
    /\ [][ (pollPc' = "connect" /\ pollPc # "connect") =>
             (~connected /\ pollPc = "idle" /\ cycle'.issued = 0 /\ DOMAIN reads' = {}) ]_vars
    /\ [][ \A t \in Tasks :
             (task'[t].pc = "connect" /\ task[t].pc # "connect") =>
                 (~connected /\ task[t].pc \in { "idle", "sleep" } /\ wire' = wire) ]_vars
    /\ [][ (diag'.pc = "connect" /\ diag.pc # "connect") =>
             (~connected /\ diag.pc \in { "idle", "done" } /\ DOMAIN diag'.reads = {}) ]_vars
    /\ [](pollPc = "connect" => cycle.issued = 0)
    /\ [](diag.pc = "connect" => diag.reads = NoReads)

\* The last cycle began with the client connected and read its registers
\* without a connect(); after a disconnect() the diagnostic pass found the
\* client not connected and awaits its connect(), no read issued yet.
C30_Witness ==
    /\ cycle.kind = "returned"
    /\ cycle.startConnected
    /\ cycle.reconnect = "none"
    /\ cycle.issued = NumPolled
    /\ closeCall.calls > 0
    /\ ~connected
    /\ diag.pc = "connect"
    /\ diag.reads = NoReads

(***************************************************************************)
(* Mode-dependent registers and the result of async_write_register.        *)
(***************************************************************************)
\* The control mode the device has to be in to take a write of a register.
ModeNeeded(target) == IF target = "flow_setpoint" THEN 2 ELSE 1

ModeDependent(target) == target \in { "flow_setpoint", "power_switch_position" }

\* C31: every write of flow_setpoint (8002) or power_switch_position (8001)
\* is guarded in its invocation: an invocation that goes straight to such a
\* write found the cached modbus_control equal to the mode needed (2, 1),
\* and any other has written that mode first, with success.
C31_ModeDependentWritesGuarded ==
    /\ [][ \A t \in Tasks :
             ( /\ task[t].pc = "idle"
               /\ task'[t].pc # "idle"
               /\ ModeDependent(task'[t].target)
               /\ task'[t].phase = "target" )
             => SnapshotModeIs(ModeNeeded(task'[t].target)) ]_vars
    /\ [](\A t \in Tasks :
            ( /\ ModeDependent(task[t].target)
              /\ task[t].guarded
              /\ \E i \in 1..Len(wire) : wire[i].task = t /\ wire[i].address \in { 8001, 8002 } )
            => /\ task[t].control_success
               /\ WritesOf(t)[1] = << 8000, ModeNeeded(task[t].target) >>)

\* The device has acknowledged the write of the async_write_register call a
\* task is in or has just ended: the call went on to ask for a refresh.
Acknowledged(r) ==
    \/ r.pc = "refresh"
    \/ r.call # "none" /\ r.cause \in { "none", "refresh" }

\* C32: async_write_register returns True exactly when the device has
\* acknowledged the write without error, also when the refresh request
\* that follows raises, and False when the write failed or was not sent.
C32_TrueIffAcknowledged ==
    \A t \in Tasks :
        task[t].call # "none" => (task[t].call = "True" <=> Acknowledged(task[t]))

\* A guarded invocation that ended without attempting its target write.
Aborted(r) == r.guarded /\ r.pc = "done" /\ ~r.control_success

\* C33: refresh requests match successful device writes one to one: a
\* guarded invocation that wrote the mode has asked for one refresh when it
\* sleeps and for two when its target write has succeeded too, an
\* invocation whose only write succeeded has asked for one, and an aborted
\* guarded invocation for none.
C33_RefreshPerSuccessfulWrite ==
    \A t \in Tasks :
        /\ (task[t].guarded /\ task[t].pc = "sleep") => task[t].requests = 1
        /\ (task[t].guarded /\ task[t].pc = "done" /\ task[t].success) => task[t].requests = 2
        /\ (~task[t].guarded /\ task[t].pc = "done" /\ task[t].success) => task[t].requests = 1
        /\ (task[t].pc = "done" /\ task[t].cause \in { "connect", "error", "exception" }
               /\ task[t].phase = "target")
              => task[t].requests = IF task[t].guarded THEN 1 ELSE 0
        /\ Aborted(task[t]) => task[t].requests = 0

(***************************************************************************)
(* Setup and shutdown of a config entry.                                   *)
(***************************************************************************)
\* C35: setup tests the connection: async_setup_entry stores the
\* coordinator (and goes on to the platforms and services) only when the
\* first refresh reached the device, the port open and at least one
\* register read; otherwise it raises ConfigEntryNotReady and stores
\* nothing.
C35_SetupTestsConnection ==
    [][ (life.pc = "setup" /\ life'.pc # "setup") =>
           IF connected /\ cycle.kind = "returned" /\ DOMAIN data # {}
              THEN life'.stored /\ life'.pc = "forward"
              ELSE ~life'.stored /\ life'.state = "setup_retry" ]_vars

\* async_unload_entry has called disconnect() and the port is closed.
ShutDown == life.state = "not_loaded" /\ life.closes > 0 /\ ~connected

\* C34: no reopen after shutdown: once async_unload_entry has called
\* disconnect(), no later step of the coordinator calls client.connect()
\* or has the port open again, an operation that was in flight at unload
\* time included.
C34_NoReopenAfterShutdown ==
    [][ ShutDown =>
          /\ ~connected'
          /\ pollPc' = "connect" => pollPc = "connect"
          /\ \A t \in Tasks : task'[t].pc = "connect" => task[t].pc = "connect" ]_vars

(***************************************************************************)
(* Properties of several config entries, checked under SpecHub.            *)
(***************************************************************************)
\* No handler of any entry is running.
HubQuiet == \A e \in EntryIds : hub.pc[e] = "none"

\* C36: service registration tracks the loaded entries: whenever no handler
\* is running, the services are registered if and only if a coordinator is
\* stored in hass.data[DOMAIN], and they have then been registered once.
C36_ServicesTrackEntries ==
    HubQuiet =>
        /\ hub.services <=> hub.stored # {}
        /\ hub.services => hub.regs = 1

(***************************************************************************)
(* The round trip of a written value, checked under SpecRoundTrip.         *)
(***************************************************************************)
\* C37: write / poll round trip: a value v within the register's limits
\* that the device has stored is, after a successful poll cycle, the
\* snapshot's value of the register's key.
C37_RoundTrip ==
    trip.stage = "polled" => trip.snap = Val(trip.v, 1)

(***************************************************************************)
(* Properties of validate_input, checked under SpecValidate.               *)
(***************************************************************************)
\* C38: once validate_input has created its client, every exit has called
\* client.close() exactly once, none before the exit, and every failure
\* exit raises CannotConnect.
C38_ValidationReleasesPort ==
    /\ flow.created =>
          flow.closes = IF flow.pc = "done" THEN 1 ELSE 0
    /\ (flow.pc = "done" /\ flow.result = "raised") => flow.exc = "CannotConnect"

\* validate_input has ended on an unexpected exception of the serial number
\* read, with a close() that raised.
C38_Witness ==
    /\ flow.pc = "done"
    /\ flow.created
    /\ flow.exit = "read_serial"
    /\ flow.result = "raised"
    /\ flow.close = "raised"
    /\ flow.closes = 1
====
